---------------------------- MODULE Spec2Model ----------------------------
(***************************************************************************)
(* Model of the Enterprise MCP proxy: the Request/Response codec           *)
(* (framework/proxy/middleware.py), the MiddlewareChain and its four       *)
(* production stages, the MCPRouter (framework/proxy/router.py) and the    *)
(* per-connection loop of EnterpriseProxy (framework/proxy/server.py).     *)
(*                                                                         *)
(* Every `await` of the source is a step of the model.  What a peer or a   *)
(* collaborator answers (the client's bytes, the backend's reply, a        *)
(* transport fault, the result of _authenticate/_authorize/_get_approval/  *)
(* _check_rate_limit/_check_budget, the wall clock) is an input drawn      *)
(* from a small set.                                                       *)
(***************************************************************************)
EXTENDS Integers, Sequences, FiniteSets, TLC

VARIABLES
    chain,      \* MiddlewareChain.middleware: the list of stages
    config,     \* the flags of FrameworkConfig the stages read
    serving,    \* TRUE once start() has the server listening
    stopped,    \* TRUE once stop() has been called
    proxy,      \* the EnterpriseProxy(...) call: its arguments and how it ended
    pc,         \* per connection: where _handle_connection / handle_request is
    data,       \* per connection: the bytes of the last reader.read
    request,    \* per connection: the Request object of the call in progress
    response,   \* per connection: the Response object of the call in progress
    raw,        \* per connection: the bytes MCPRouter.forward returned
    out,        \* per connection: the bytes handle_request returned
    idx,        \* per connection: the position of the chain's for loop
    backend,    \* per connection: the backend transport of the forward in progress
    call,       \* per connection: what the call in progress has done so far
    conn        \* per connection: what the connection has done so far

vars == <<chain, config, serving, stopped, proxy, pc, data, request, response, raw, out, idx,
          backend, call, conn>>

(***************************************************************************)
(* Bounds of the model.                                                    *)
(***************************************************************************)
\* messages a client sends on one connection before it disconnects
MaxReqs == 2
\* stages a chain assembled with MiddlewareChain.add holds
MaxChain == 2

\* the wall clock readings time.time() may return
Times == {0, 1}
Methods == {"tools/list", "issues.close"}
Ids == {"1", "2"}

\* Python's None, and a key that a JSON object does not hold
None == "<None>"
Absent == "<absent>"

(***************************************************************************)
(* Exceptions: str(e) is the message.                                      *)
(***************************************************************************)
Exc(type, msg) == [type |-> type, msg |-> msg]
NoExc == Exc("none", "")
str(e) == e.msg

(***************************************************************************)
(* Request (middleware.py 13-59).                                          *)
(***************************************************************************)
EmptyMetadata == [keys |-> {}, user |-> None, start_time |-> 0, approval |-> None]

NewRequest(method, id) ==
    [method |-> method, id |-> id, jsonrpc |-> "2.0", metadata |-> EmptyMetadata]

NoRequest == NewRequest(Absent, Absent)

\* the bytes a client may send in one read: not JSON at all, JSON that is no
\* object, or an object with or without the keys "method" and "id"
ClientMsgs ==
    {[json |-> "garbage", method |-> Absent, id |-> Absent],
     [json |-> "nonobject", method |-> Absent, id |-> Absent]}
    \cup [json : {"object"}, method : Methods \cup {Absent}, id : Ids \cup {Absent}]

NoData == [json |-> "none", method |-> Absent, id |-> Absent]
EOF == [json |-> "eof", method |-> Absent, id |-> Absent]

\* dict.get(key, default)
Get(present, value, default) == IF present THEN value ELSE default

\* Request.from_bytes: json.loads fails on garbage, obj.get fails on a JSON
\* value that is no object; both are re-raised as ValueError.  A missing
\* method becomes "", a missing id a fresh uuid.
Request_from_bytes(bytes) ==
    IF bytes.json # "object"
    THEN [raised |-> TRUE, exc |-> Exc("ValueError", "Invalid MCP request"),
          request |-> NoRequest]
    ELSE [raised |-> FALSE, exc |-> NoExc,
          request |-> NewRequest(Get(bytes.method # Absent, bytes.method, ""),
                                 Get(bytes.id # Absent, bytes.id, "uuid4"))]

\* Request.to_bytes built on to_dict, which holds the metadata as well
Request_to_bytes_dict(req) ==
    [json |-> "object", jsonrpc |-> req.jsonrpc, method |-> req.method, id |-> req.id,
     metadata |-> req.metadata]

\* Request.to_bytes: jsonrpc, method, params and id; never the metadata
Request_to_bytes(req) ==
    [json |-> "object", jsonrpc |-> req.jsonrpc, method |-> req.method, id |-> req.id]

NoBytes == [json |-> "none", jsonrpc |-> "2.0", method |-> Absent, id |-> Absent]

(***************************************************************************)
(* Response (middleware.py 62-121).                                        *)
(***************************************************************************)
DefaultErrorCode == -32603

\* an error member: absent/null, an empty object {} (falsy), or {code, message}
NoError == [kind |-> "none", code |-> 0, message |-> ""]
EmptyError == [kind |-> "empty", code |-> 0, message |-> ""]
ErrorObj(code, message) == [kind |-> "set", code |-> code, message |-> message]

\* Python truthiness of Response.error
Truthy(err) == err.kind = "set"

EmptyRespMetadata == [keys |-> {}, duration_seconds |-> 0]

NewResponse(result, err, id) ==
    [result |-> result, error |-> err, id |-> id, metadata |-> EmptyRespMetadata]

NoResponse == NewResponse(None, NoError, None)

\* Response.error(message, code = -32603): only the error member is set, the
\* id keeps its default None
Response_error(message) ==
    NewResponse(None, ErrorObj(DefaultErrorCode, message), None)

\* what a backend may send back: nothing before closing (b""), bytes that are
\* not JSON, JSON that is no object, a result with the request's id, another
\* id or none, or (with the request's id) an error, both members, neither,
\* or an empty error object
BackendError == [kind |-> "set", code |-> -32000, message |-> "backend error"]

BackendReplies(reqId) ==
    {[json |-> j, result |-> None, error |-> NoError, id |-> None] :
        j \in {"empty", "garbage", "nonobject"}}
    \cup [json : {"object"}, result : {"data"}, error : {NoError},
          id : {reqId, "other", None}]
    \cup [json : {"object"}, result : {None, "data"}, error : {BackendError},
          id : {reqId}]
    \cup [json : {"object"}, result : {None}, error : {NoError}, id : {reqId}]
    \cup [json : {"object"}, result : {"data"}, error : {EmptyError}, id : {reqId}]

NoRaw == [json |-> "none", result |-> None, error |-> NoError, id |-> None]

\* Response.from_bytes: obj.get for result, error, id; any failure is
\* re-raised as ValueError
Response_from_bytes(bytes) ==
    IF bytes.json # "object"
    THEN [raised |-> TRUE, exc |-> Exc("ValueError", "Invalid MCP response"),
          response |-> NoResponse]
    ELSE [raised |-> FALSE, exc |-> NoExc,
          response |-> NewResponse(bytes.result, bytes.error, bytes.id)]

\* Response.to_bytes built on to_dict, which holds the metadata as well
Response_to_bytes_dict(resp) ==
    IF Truthy(resp.error)
    THEN [keys |-> {"jsonrpc", "id", "error", "metadata"}, id |-> resp.id,
          result |-> None, error |-> resp.error, metadata |-> resp.metadata]
    ELSE [keys |-> {"jsonrpc", "id", "result", "metadata"}, id |-> resp.id,
          result |-> resp.result, error |-> NoError, metadata |-> resp.metadata]

\* Response.to_bytes with the result written unconditionally (the else lost)
Response_to_bytes_both(resp) ==
    IF Truthy(resp.error)
    THEN [keys |-> {"jsonrpc", "id", "error", "result"}, id |-> resp.id,
          result |-> resp.result, error |-> resp.error]
    ELSE [keys |-> {"jsonrpc", "id", "result"}, id |-> resp.id,
          result |-> resp.result, error |-> [kind |-> "none", code |-> 0, message |-> ""]]

\* Response.to_bytes: jsonrpc and id, then error if it is truthy, else result
Response_to_bytes(resp) ==
    IF Truthy(resp.error)
    THEN [keys |-> {"jsonrpc", "id", "error"}, id |-> resp.id,
          result |-> None, error |-> resp.error]
    ELSE [keys |-> {"jsonrpc", "id", "result"}, id |-> resp.id,
          result |-> resp.result, error |-> NoError]

NoOut == [keys |-> {}, id |-> None, result |-> None, error |-> NoError]


(***************************************************************************)
(* The stages.  A stage's process_request returns the request (mutated in  *)
(* place) or raises; what it wrote to the audit log is returned with it.   *)
(***************************************************************************)
Security == "SecurityMiddleware"
Observability == "ObservabilityMiddleware"
Governance == "GovernanceMiddleware"
CostManagement == "CostManagementMiddleware"
\* any other subclass of Middleware: it returns what it was given, or raises
Custom == "CustomMiddleware"

StageKinds == {Security, Observability, Governance, CostManagement, Custom}

\* the defaults of config.py for the flags the stages read, and one approval
\* rule for the operation "issues.close"
DefaultConfig ==
    [rbac_enabled |-> TRUE, audit_enabled |-> TRUE, rate_limits_enabled |-> TRUE,
     budget_enabled |-> TRUE, tracking_enabled |-> TRUE,
     approval_operations |-> {"issues.close"}]

\* what the collaborators and the clock answer during one stage call
NoInput ==
    [user |-> "demo_user", authorized |-> TRUE, approval |-> "auto_approved",
     rate_ok |-> TRUE, budget_ok |-> TRUE, now |-> 0, now2 |-> 0, fault |-> FALSE]

RequestInputs(kind) ==
    CASE kind = Security ->
           {[NoInput EXCEPT !.user = u, !.authorized = a] :
               u \in {"demo_user", None}, a \in BOOLEAN}
      [] kind = Observability -> {[NoInput EXCEPT !.now = t] : t \in Times}
      [] kind = Governance ->
           {[NoInput EXCEPT !.approval = a] : a \in {"auto_approved", None}}
      [] kind = CostManagement ->
           {[NoInput EXCEPT !.rate_ok = r, !.budget_ok = b] :
               r \in BOOLEAN, b \in BOOLEAN}
      [] OTHER -> {[NoInput EXCEPT !.fault = f] : f \in BOOLEAN}

ResponseInputs(kind) ==
    CASE kind = Observability ->
           {[NoInput EXCEPT !.now = t, !.now2 = u] : t \in Times, u \in Times}
      [] kind = Custom -> {[NoInput EXCEPT !.fault = f] : f \in BOOLEAN}
      [] OTHER -> {NoInput}

\* one consultation of a collaborator and its answer
Asked(fn, result) == [fn |-> fn, result |-> result]
Bool(b) == IF b THEN "True" ELSE "False"

Returned(req, audit, calls) ==
    [raised |-> FALSE, exc |-> NoExc, request |-> req, audit |-> audit, calls |-> calls]
Raised(e, req, audit, calls) ==
    [raised |-> TRUE, exc |-> e, request |-> req, audit |-> audit, calls |-> calls]

SetUser(req, user) ==
    [req EXCEPT !.metadata.keys = @ \cup {"user"}, !.metadata.user = user]
SetStartTime(req, t) ==
    [req EXCEPT !.metadata.keys = @ \cup {"start_time"}, !.metadata.start_time = t]
SetApproval(req, a) ==
    [req EXCEPT !.metadata.keys = @ \cup {"approval"}, !.metadata.approval = a]

\* SecurityMiddleware.process_request with the RBAC answer ignored
Security_process_request_allow(req, inp) ==
    IF inp.user = None
    THEN Raised(Exc("PermissionError", "Authentication failed"), req, <<>>,
                <<Asked("_authenticate", inp.user)>>)
    ELSE Returned(SetUser(req, inp.user), <<>>,
                  <<Asked("_authenticate", inp.user)>>
                  \o (IF config.rbac_enabled
                      THEN <<Asked("_authorize", Bool(inp.authorized))>> ELSE <<>>))

\* SecurityMiddleware.process_request consulting _authorize whether or not
\* rbac_enabled is set
Security_process_request_rbac(req, inp) ==
    IF inp.user = None
    THEN Raised(Exc("PermissionError", "Authentication failed"), req, <<>>,
                <<Asked("_authenticate", inp.user)>>)
    ELSE LET r1 == SetUser(req, inp.user) IN
         IF ~inp.authorized
         THEN Raised(Exc("PermissionError", "User not authorized"), r1, <<>>,
                     <<Asked("_authenticate", inp.user),
                       Asked("_authorize", Bool(inp.authorized))>>)
         ELSE Returned(r1, <<>>,
                       <<Asked("_authenticate", inp.user),
                         Asked("_authorize", Bool(inp.authorized))>>)

\* SecurityMiddleware.process_request
Security_process_request(req, inp) ==
    IF inp.user = None
    THEN Raised(Exc("PermissionError", "Authentication failed"), req, <<>>,
                <<Asked("_authenticate", inp.user)>>)
    ELSE LET r1 == SetUser(req, inp.user) IN
         IF config.rbac_enabled
         THEN IF ~inp.authorized
              THEN Raised(Exc("PermissionError", "User not authorized"), r1, <<>>,
                          <<Asked("_authenticate", inp.user),
                            Asked("_authorize", Bool(inp.authorized))>>)
              ELSE Returned(r1, <<>>,
                            <<Asked("_authenticate", inp.user),
                              Asked("_authorize", Bool(inp.authorized))>>)
         ELSE Returned(r1, <<>>, <<Asked("_authenticate", inp.user)>>)

\* ObservabilityMiddleware.process_request
Observability_process_request(req, inp) ==
    Returned(SetStartTime(req, inp.now), <<>>, <<>>)

\* GovernanceMiddleware._requires_approval
requires_approval(req) == req.method \in config.approval_operations

\* GovernanceMiddleware._audit_log: the entry written
audit_entry(req, event_type, status) ==
    [event_type |-> event_type, request_id |-> req.id, method |-> req.method,
     user |-> Get("user" \in req.metadata.keys, req.metadata.user, None),
     status |-> status]

\* GovernanceMiddleware.process_request recording an approved operation by
\* rewriting the request's method
Governance_process_request_rewrite(req, inp) ==
    LET need == requires_approval(req)
        r1 == IF need
              THEN [SetApproval(req, inp.approval) EXCEPT !.method = "approved"]
              ELSE req
        calls == IF need THEN <<Asked("_get_approval", inp.approval)>> ELSE <<>>
    IN  IF need /\ inp.approval = None
        THEN Raised(Exc("PermissionError", "Approval required"), req, <<>>, calls)
        ELSE Returned(r1, IF config.audit_enabled
                          THEN <<audit_entry(r1, "request", None)>> ELSE <<>>,
                      calls)

\* GovernanceMiddleware.process_request
Governance_process_request(req, inp) ==
    LET need == requires_approval(req)
        r1 == IF need THEN SetApproval(req, inp.approval) ELSE req
        calls == IF need THEN <<Asked("_get_approval", inp.approval)>> ELSE <<>>
    IN  IF need /\ inp.approval = None
        THEN Raised(Exc("PermissionError", "Approval required"), req, <<>>, calls)
        ELSE Returned(r1, IF config.audit_enabled
                          THEN <<audit_entry(r1, "request", None)>> ELSE <<>>,
                      calls)

\* CostManagementMiddleware.process_request with the budget check left out
CostManagement_process_request_nobudget(req, inp) ==
    IF config.rate_limits_enabled /\ ~inp.rate_ok
    THEN Raised(Exc("PermissionError", "Rate limit exceeded"), req, <<>>,
                <<Asked("_check_rate_limit", Bool(inp.rate_ok))>>)
    ELSE Returned(req, <<>>,
                  IF config.rate_limits_enabled
                  THEN <<Asked("_check_rate_limit", Bool(inp.rate_ok))>> ELSE <<>>)

\* CostManagementMiddleware.process_request
CostManagement_process_request(req, inp) ==
    LET rate == IF config.rate_limits_enabled
                THEN <<Asked("_check_rate_limit", Bool(inp.rate_ok))>> ELSE <<>>
        budget == IF config.budget_enabled
                  THEN <<Asked("_check_budget", Bool(inp.budget_ok))>> ELSE <<>>
    IN  IF config.rate_limits_enabled /\ ~inp.rate_ok
        THEN Raised(Exc("PermissionError", "Rate limit exceeded"), req, <<>>, rate)
        ELSE IF config.budget_enabled /\ ~inp.budget_ok
        THEN Raised(Exc("PermissionError", "Budget limit exceeded"), req, <<>>,
                    rate \o budget)
        ELSE Returned(req, <<>>, rate \o budget)

\* a Middleware subclass of the embedding application
Custom_process_request(req, inp) ==
    IF inp.fault THEN Raised(Exc("RuntimeError", "stage failure"), req, <<>>, <<>>)
    ELSE Returned(req, <<>>, <<>>)

Stage_process_request(kind, req, inp) ==
    CASE kind = Security -> Security_process_request(req, inp)
      [] kind = Observability -> Observability_process_request(req, inp)
      [] kind = Governance -> Governance_process_request(req, inp)
      [] kind = CostManagement -> CostManagement_process_request(req, inp)
      [] OTHER -> Custom_process_request(req, inp)

RespReturned(resp, audit) ==
    [raised |-> FALSE, exc |-> NoExc, response |-> resp, audit |-> audit]
RespRaised(e, resp) == [raised |-> TRUE, exc |-> e, response |-> resp, audit |-> <<>>]

\* SecurityMiddleware.process_response
Security_process_response(resp, req, inp) == RespReturned(resp, <<>>)

\* ObservabilityMiddleware.process_response reading metadata["start_time"]
\* without a default: KeyError when process_request has not stamped it
Observability_process_response_strict(resp, req, inp) ==
    IF "start_time" \notin req.metadata.keys
    THEN RespRaised(Exc("KeyError", "'start_time'"), resp)
    ELSE RespReturned([resp EXCEPT !.metadata.keys = @ \cup {"duration_seconds"},
                                   !.metadata.duration_seconds =
                                       inp.now2 - req.metadata.start_time], <<>>)

\* ObservabilityMiddleware.process_response
Observability_process_response(resp, req, inp) ==
    LET start_time == Get("start_time" \in req.metadata.keys,
                          req.metadata.start_time, inp.now)
        duration == inp.now2 - start_time
    IN  RespReturned([resp EXCEPT !.metadata.keys = @ \cup {"duration_seconds"},
                                  !.metadata.duration_seconds = duration], <<>>)

\* GovernanceMiddleware.process_response
Governance_process_response(resp, req, inp) ==
    RespReturned(resp,
        IF config.audit_enabled
        THEN <<audit_entry(req, "response",
                           IF Truthy(resp.error) THEN "error" ELSE "success")>>
        ELSE <<>>)

\* CostManagementMiddleware.process_response
CostManagement_process_response(resp, req, inp) ==
    RespReturned([resp EXCEPT !.metadata.keys = @ \cup {"cost_usd"}], <<>>)

Custom_process_response(resp, req, inp) ==
    IF inp.fault THEN RespRaised(Exc("RuntimeError", "stage failure"), resp)
    ELSE RespReturned(resp, <<>>)

Stage_process_response(kind, resp, req, inp) ==
    CASE kind = Security -> Security_process_response(resp, req, inp)
      [] kind = Observability -> Observability_process_response(resp, req, inp)
      [] kind = Governance -> Governance_process_response(resp, req, inp)
      [] kind = CostManagement -> CostManagement_process_response(resp, req, inp)
      [] OTHER -> Custom_process_response(resp, req, inp)


(***************************************************************************)
(* Construction: MiddlewareChain.add and EnterpriseProxy._init_middleware. *)
(***************************************************************************)
Conns == {1}

Range(seq) == {seq[i] : i \in 1..Len(seq)}

RECURSIVE Reverse(_)
Reverse(seq) ==
    IF seq = <<>> THEN <<>> ELSE Append(Reverse(Tail(seq)), Head(seq))

\* __init__ keeping None for a layer that was not passed: the layer is off
FrameworkLayers_given(args) == args

\* EnterpriseProxy.__init__: a layer passed as None gets its default config
FrameworkLayers(args) == [k \in DOMAIN args |-> TRUE]

\* the constructor's four optional layer arguments: TRUE for a config object
LayerArgs ==
    [security : BOOLEAN, observability : BOOLEAN, governance : BOOLEAN,
     cost_management : BOOLEAN]

\* _init_middleware with the Governance layer added before Observability
init_middleware_swapped(layers) ==
    (IF layers.security THEN <<Security>> ELSE <<>>)
    \o (IF layers.governance THEN <<Governance>> ELSE <<>>)
    \o (IF layers.observability THEN <<Observability>> ELSE <<>>)
    \o (IF layers.cost_management THEN <<CostManagement>> ELSE <<>>)

\* EnterpriseProxy._init_middleware: each layer whose config is truthy is
\* added, in this order
init_middleware(layers) ==
    (IF layers.security THEN <<Security>> ELSE <<>>)
    \o (IF layers.observability THEN <<Observability>> ELSE <<>>)
    \o (IF layers.governance THEN <<Governance>> ELSE <<>>)
    \o (IF layers.cost_management THEN <<CostManagement>> ELSE <<>>)

\* SecurityConfig: the fields the constructor's validation and the Security
\* stage read
SecurityConfig(rbac, tls, cert, key) ==
    [rbac_enabled |-> rbac, tls_enabled |-> tls, tls_cert_path |-> cert,
     tls_key_path |-> key]

\* SecurityConfig(): RBAC on, TLS on, no certificate and no key
DefaultSecurityConfig == SecurityConfig(TRUE, TRUE, None, None)

\* the security argument of the constructor: None, or a SecurityConfig
NoSecurityArg == [given |-> FALSE, value |-> DefaultSecurityConfig]

SecurityArgs ==
    {NoSecurityArg}
    \cup {[given |-> TRUE, value |-> SecurityConfig(rbac, tls, cert, key)] :
              rbac \in BOOLEAN, tls \in BOOLEAN,
              cert \in {None, "cert.pem"}, key \in {None, "key.pem"}}

\* the arguments of EnterpriseProxy(...): the other three layers are TRUE
\* for a config object and FALSE for None
CtorArgs ==
    [target_server : {"", "my-mcp-server"}, security : SecurityArgs,
     observability : BOOLEAN, governance : BOOLEAN, cost_management : BOOLEAN]

NoCtorArgs ==
    [target_server |-> "", security |-> NoSecurityArg, observability |-> FALSE,
     governance |-> FALSE, cost_management |-> FALSE]

\* the FrameworkConfig built in EnterpriseProxy.__init__: "security or
\* SecurityConfig()", and the same for the other layers
FrameworkConfig(args) ==
    [target_server |-> args.target_server,
     security |-> IF args.security.given THEN args.security.value
                  ELSE DefaultSecurityConfig,
     layers |-> FrameworkLayers([security |-> args.security.given,
                                 observability |-> args.observability,
                                 governance |-> args.governance,
                                 cost_management |-> args.cost_management])]

\* FrameworkConfig.validate: the ValueError it raises, or NoExc
validate(cfg) ==
    IF cfg.target_server = ""
    THEN Exc("ValueError", "target_server is required")
    ELSE IF /\ cfg.security.tls_enabled
            /\ (cfg.security.tls_cert_path = None \/ cfg.security.tls_key_path = None)
         THEN Exc("ValueError", "TLS enabled but cert/key paths not provided")
         ELSE NoExc

\* no EnterpriseProxy(...) call has been made yet
NoProxy ==
    [status |-> "none", exc |-> NoExc, args |-> NoCtorArgs,
     config |-> FrameworkConfig(NoCtorArgs)]

\* the record of one call: its number on the connection, how the call before
\* it ended, the stages visited, the forwards made, how it ended, the
\* exception handle_request caught, the audit entries written, the
\* collaborators consulted, and the writes made to the backend
NewCall(n, prev) ==
    [n |-> n, prev |-> prev, reqVisited |-> <<>>, respVisited |-> <<>>,
     forwards |-> 0, sent |-> NoBytes, outcome |-> "running", exc |-> NoExc,
     audit |-> <<>>, calls |-> <<>>, sends |-> 0]

\* how a finished call ended, as the next call remembers it
Ended(cl) ==
    IF cl.n = 0 THEN "none"
    ELSE IF cl.outcome \in {"ok", "decode"} THEN cl.outcome ELSE "error"

NewConn == [nRead |-> 0, events |-> <<>>, closes |-> 0, exit |-> "none"]

NewBackend == [state |-> "none", opened |-> 0, closed |-> 0]

InitWith(conns) ==
    /\ chain = <<>>
    /\ config = DefaultConfig
    /\ serving = FALSE
    /\ stopped = FALSE
    /\ proxy = NoProxy
    /\ pc = [c \in conns |-> "new"]
    /\ data = [c \in conns |-> NoData]
    /\ request = [c \in conns |-> NoRequest]
    /\ response = [c \in conns |-> NoResponse]
    /\ raw = [c \in conns |-> NoRaw]
    /\ out = [c \in conns |-> NoOut]
    /\ idx = [c \in conns |-> 0]
    /\ backend = [c \in conns |-> NewBackend]
    /\ call = [c \in conns |-> NewCall(0, "none")]
    /\ conn = [c \in conns |-> NewConn]

Init == InitWith(Conns)

\* MiddlewareChain.add, for a chain assembled by the embedding application
add(kind) ==
    /\ ~serving
    /\ Len(chain) < MaxChain
    /\ kind \notin Range(chain)
    /\ chain' = Append(chain, kind)
    /\ UNCHANGED <<config, proxy, serving, stopped, pc, data, request, response, raw, out, idx,
                   backend, call, conn>>

\* EnterpriseProxy.__init__ calling _init_middleware
InitMiddleware ==
    /\ ~serving
    /\ chain = <<>>
    /\ \E args \in LayerArgs : chain' = init_middleware(FrameworkLayers(args))
    /\ proxy' = [proxy EXCEPT !.status = "ready"]
    /\ UNCHANGED <<config, serving, stopped, pc, data, request, response, raw, out, idx,
                   backend, call, conn>>

\* EnterpriseProxy.start / _run_server: the server listens
start ==
    /\ ~serving
    /\ serving' = TRUE
    /\ UNCHANGED <<chain, config, proxy, stopped, pc, data, request, response, raw, out, idx,
                   backend, call, conn>>

\* EnterpriseProxy.__init__ as a whole: build the FrameworkConfig, validate
\* it, and only then build the middleware chain; a ValueError leaves no proxy
EnterpriseProxy ==
    /\ proxy.status = "none"
    /\ ~serving
    /\ chain = <<>>
    /\ \E args \in CtorArgs :
          LET cfg == FrameworkConfig(args)
              e == validate(cfg)
          IN  IF e # NoExc
              THEN /\ proxy' = [status |-> "invalid", exc |-> e, args |-> args,
                                config |-> cfg]
                   /\ UNCHANGED <<chain, config>>
              ELSE /\ proxy' = [status |-> "ready", exc |-> NoExc, args |-> args,
                                config |-> cfg]
                   /\ chain' = init_middleware(cfg.layers)
                   /\ config' = [DefaultConfig EXCEPT
                                    !.rbac_enabled = cfg.security.rbac_enabled]
    /\ UNCHANGED <<serving, stopped, pc, data, request, response, raw, out, idx,
                   backend, call, conn>>

\* proxy.start() on the object the constructor returned
proxy_start ==
    /\ proxy.status = "ready"
    /\ start

NextCtor == EnterpriseProxy \/ proxy_start

SpecCtor == InitWith(Conns) /\ [][NextCtor]_vars

(***************************************************************************)
(* EnterpriseProxy._handle_connection: the read loop.                      *)
(***************************************************************************)
Event(ev, n) == [ev |-> ev, n |-> n]

\* asyncio.start_server hands an accepted connection to _handle_connection
Accept(c) ==
    /\ serving
    /\ pc[c] = "new"
    /\ pc' = [pc EXCEPT ![c] = "read"]
    /\ UNCHANGED <<chain, config, proxy, serving, stopped, data, request, response, raw, out, idx,
                   backend, call, conn>>

\* data = await reader.read(4096): a message, end of stream (b""), or a fault
Read(c) ==
    /\ pc[c] = "read"
    /\ \/ /\ conn[c].nRead < MaxReqs
          /\ \E m \in ClientMsgs : data' = [data EXCEPT ![c] = m]
          /\ pc' = [pc EXCEPT ![c] = "handle"]
          /\ conn' = [conn EXCEPT ![c].nRead = @ + 1,
                                  ![c].events = Append(@, Event("read", conn[c].nRead + 1))]
          /\ call' = [call EXCEPT ![c] = NewCall(conn[c].nRead + 1, Ended(@))]
       \/ /\ data' = [data EXCEPT ![c] = EOF]
          /\ pc' = [pc EXCEPT ![c] = "close"]
          /\ conn' = [conn EXCEPT ![c].exit = "eof"]
          /\ UNCHANGED call
       \/ /\ data' = [data EXCEPT ![c] = NoData]
          /\ pc' = [pc EXCEPT ![c] = "close"]
          /\ conn' = [conn EXCEPT ![c].exit = "read_error"]
          /\ UNCHANGED call
    /\ request' = [request EXCEPT ![c] = NoRequest]
    /\ response' = [response EXCEPT ![c] = NoResponse]
    /\ raw' = [raw EXCEPT ![c] = NoRaw]
    /\ out' = [out EXCEPT ![c] = NoOut]
    /\ idx' = [idx EXCEPT ![c] = 0]
    /\ UNCHANGED <<chain, config, proxy, serving, stopped, backend>>

(***************************************************************************)
(* EnterpriseProxy.handle_request.                                         *)
(***************************************************************************)
\* the except clause answering with a fixed text instead of str(e)
handle_request_except_generic(c, e) ==
    /\ response' = [response EXCEPT ![c] = Response_error("Internal error")]
    /\ out' = [out EXCEPT ![c] = Response_to_bytes(Response_error("Internal error"))]
    /\ pc' = [pc EXCEPT ![c] = "write"]

\* the except clause re-raising: the exception reaches _handle_connection,
\* whose except and finally clauses end the connection
handle_request_except_reraise(c, e) ==
    /\ pc' = [pc EXCEPT ![c] = "close"]
    /\ UNCHANGED <<response, out>>

\* the except clause: error_response = Response.error(str(e)) is encoded and
\* returned to _handle_connection, which writes it
handle_request_except(c, e) ==
    /\ response' = [response EXCEPT ![c] = Response_error(str(e))]
    /\ out' = [out EXCEPT ![c] = Response_to_bytes(Response_error(str(e)))]
    /\ pc' = [pc EXCEPT ![c] = "write"]

Failed(cl, outcome, e) == [cl EXCEPT !.outcome = outcome, !.exc = e]

\* handle_request with Request.from_bytes outside its try block: a decode
\* failure reaches _handle_connection and ends the connection
Handle_fatal(c) ==
    /\ pc[c] = "handle"
    /\ LET r == Request_from_bytes(data[c]) IN
         IF r.raised
         THEN /\ pc' = [pc EXCEPT ![c] = "close"]
              /\ call' = [call EXCEPT ![c] = [@ EXCEPT !.outcome = "decode", !.exc = r.exc]]
              /\ UNCHANGED <<request, idx, response, out>>
         ELSE /\ request' = [request EXCEPT ![c] = r.request]
              /\ idx' = [idx EXCEPT ![c] = 1]
              /\ pc' = [pc EXCEPT ![c] = "process_request"]
              /\ UNCHANGED <<response, out, call>>
    /\ data' = [data EXCEPT ![c] = NoData]
    /\ UNCHANGED <<chain, config, proxy, serving, stopped, raw, backend, conn>>

\* request = Request.from_bytes(raw_request); the bytes are not used again
Handle(c) ==
    /\ pc[c] = "handle"
    /\ LET r == Request_from_bytes(data[c]) IN
         IF r.raised
         THEN /\ handle_request_except(c, r.exc)
              /\ call' = [call EXCEPT ![c] = Failed(@, "decode", r.exc)]
              /\ UNCHANGED <<request, idx>>
         ELSE /\ request' = [request EXCEPT ![c] = r.request]
              /\ idx' = [idx EXCEPT ![c] = 1]
              /\ pc' = [pc EXCEPT ![c] = "process_request"]
              /\ UNCHANGED <<response, out, call>>
    /\ data' = [data EXCEPT ![c] = NoData]
    /\ UNCHANGED <<chain, config, proxy, serving, stopped, raw, backend, conn>>

\* the loop of MiddlewareChain.process_request catching a stage's exception
\* and going on with the next stage
process_request_swallow(c) ==
    /\ pc[c] = "process_request"
    /\ idx[c] <= Len(chain)
    /\ LET kind == chain[idx[c]] IN
       \E inp \in RequestInputs(kind) :
         LET r == Stage_process_request(kind, request[c], inp)
             cl == [call[c] EXCEPT !.reqVisited = Append(@, kind),
                                   !.audit = @ \o r.audit]
         IN  /\ request' = [request EXCEPT ![c] = r.request]
             /\ idx' = [idx EXCEPT ![c] = @ + 1]
             /\ call' = [call EXCEPT ![c] =
                    IF r.raised
                    THEN [cl EXCEPT !.outcome = "abort", !.exc = r.exc]
                    ELSE cl]
    /\ UNCHANGED <<chain, config, proxy, serving, stopped, data, raw, backend, conn, response, out, pc>>

\* MiddlewareChain.process_request calling every stage a second time before
\* it moves on to the next
process_request_twice(c) ==
    /\ pc[c] = "process_request"
    /\ idx[c] <= Len(chain)
    /\ LET kind == chain[idx[c]] IN
       \E inp \in RequestInputs(kind) :
         LET r == Stage_process_request(kind, request[c], inp)
             cl == [call[c] EXCEPT !.reqVisited = Append(@, kind),
                                   !.audit = @ \o r.audit,
                                   !.calls = @ \o r.calls]
         IN  /\ request' = [request EXCEPT ![c] = r.request]
             /\ IF r.raised
                THEN /\ handle_request_except(c, r.exc)
                     /\ call' = [call EXCEPT ![c] =
                            Failed(cl, IF r.exc.type = "PermissionError"
                                       THEN "abort" ELSE "stage_error", r.exc)]
                     /\ UNCHANGED idx
                ELSE /\ idx' = [idx EXCEPT ![c] =
                                   IF kind \in Range(call[c].reqVisited)
                                   THEN @ + 1 ELSE @]
                     /\ call' = [call EXCEPT ![c] = cl]
                     /\ UNCHANGED <<response, out, pc>>
    /\ UNCHANGED <<chain, config, proxy, serving, stopped, data, raw, backend, conn>>

\* MiddlewareChain.process_request: one turn of `for mw in self.middleware`
process_request(c) ==
    /\ pc[c] = "process_request"
    /\ idx[c] <= Len(chain)
    /\ LET kind == chain[idx[c]] IN
       \E inp \in RequestInputs(kind) :
         LET r == Stage_process_request(kind, request[c], inp)
             cl == [call[c] EXCEPT !.reqVisited = Append(@, kind),
                                   !.audit = @ \o r.audit,
                                   !.calls = @ \o r.calls]
         IN  /\ request' = [request EXCEPT ![c] = r.request]
             /\ IF r.raised
                THEN /\ handle_request_except(c, r.exc)
                     /\ call' = [call EXCEPT ![c] =
                            Failed(cl, IF r.exc.type = "PermissionError"
                                       THEN "abort" ELSE "stage_error", r.exc)]
                     /\ UNCHANGED idx
                ELSE /\ idx' = [idx EXCEPT ![c] = @ + 1]
                     /\ call' = [call EXCEPT ![c] = cl]
                     /\ UNCHANGED <<response, out, pc>>
    /\ UNCHANGED <<chain, config, proxy, serving, stopped, data, raw, backend, conn>>

\* raw_response = await self.router.forward(processed_request.to_bytes())
forward(c) ==
    /\ pc[c] = "process_request"
    /\ idx[c] > Len(chain)
    /\ call' = [call EXCEPT ![c].forwards = @ + 1,
                            ![c].sent = Request_to_bytes(request[c])]
    /\ pc' = [pc EXCEPT ![c] = "forward_open"]
    /\ UNCHANGED <<chain, config, proxy, serving, stopped, data, request, response, raw, out, idx,
                   backend, conn>>

(***************************************************************************)
(* MCPRouter.forward (router.py 33-68).  Its except clause logs and        *)
(* re-raises, so a failure reaches handle_request's except clause.         *)
(***************************************************************************)
\* forward with one backend connection at a time for the whole proxy: a call
\* waits while another connection's call holds the backend
forward_open_exclusive(c) ==
    /\ pc[c] = "forward_open"
    /\ \A d \in DOMAIN pc \ {c} :
           pc[d] \notin {"forward_drain", "forward_read", "forward_close"}
    /\ \/ /\ \E peer \in {"open", "silent"} :
                backend' = [backend EXCEPT ![c].state = peer, ![c].opened = @ + 1]
          /\ pc' = [pc EXCEPT ![c] = "forward_drain"]
          /\ UNCHANGED <<response, out, call>>
       \/ LET e == Exc("ConnectionRefusedError", "Connect call failed") IN
          /\ handle_request_except(c, e)
          /\ call' = [call EXCEPT ![c] = Failed(@, "forward", e)]
          /\ UNCHANGED backend
    /\ UNCHANGED <<chain, config, proxy, serving, stopped, data, request, raw, idx, conn>>

\* reader, writer = await asyncio.open_connection(host, port)
forward_open(c) ==
    /\ pc[c] = "forward_open"
    /\ \/ /\ \E peer \in {"open", "silent"} :
                backend' = [backend EXCEPT ![c].state = peer, ![c].opened = @ + 1]
          /\ pc' = [pc EXCEPT ![c] = "forward_drain"]
          /\ UNCHANGED <<response, out, call>>
       \/ LET e == Exc("ConnectionRefusedError", "Connect call failed") IN
          /\ handle_request_except(c, e)
          /\ call' = [call EXCEPT ![c] = Failed(@, "forward", e)]
          /\ UNCHANGED backend
    /\ UNCHANGED <<chain, config, proxy, serving, stopped, data, request, raw, idx, conn>>

\* forward with a second attempt after a failed drain: the request bytes are
\* written to a fresh connection once more
forward_drain_retry(c) ==
    /\ pc[c] = "forward_drain"
    /\ \/ /\ pc' = [pc EXCEPT ![c] = "forward_read"]
          /\ call' = [call EXCEPT ![c].sends = @ + 1]
          /\ UNCHANGED <<response, out>>
       \/ /\ call[c].sends = 0
          /\ pc' = [pc EXCEPT ![c] = "forward_open"]
          /\ call' = [call EXCEPT ![c].sends = @ + 1]
          /\ UNCHANGED <<response, out>>
       \/ LET e == Exc("ConnectionResetError", "Connection lost") IN
          /\ call[c].sends > 0
          /\ handle_request_except(c, e)
          /\ call' = [call EXCEPT ![c] = Failed([@ EXCEPT !.sends = @ + 1], "forward", e)]
    /\ UNCHANGED <<chain, config, proxy, serving, stopped, data, request, raw, idx, backend, conn>>

\* writer.write(data); await writer.drain(): the bytes are handed to the
\* transport once, whether or not the drain then fails
forward_drain(c) ==
    /\ pc[c] = "forward_drain"
    /\ \/ /\ pc' = [pc EXCEPT ![c] = "forward_read"]
          /\ call' = [call EXCEPT ![c].sends = @ + 1]
          /\ UNCHANGED <<response, out>>
       \/ LET e == Exc("ConnectionResetError", "Connection lost") IN
          /\ handle_request_except(c, e)
          /\ call' = [call EXCEPT ![c] = Failed([@ EXCEPT !.sends = @ + 1], "forward", e)]
    /\ UNCHANGED <<chain, config, proxy, serving, stopped, data, request, raw, idx, backend, conn>>

\* response = await reader.read(4096): the reply, b"" if the backend closed
\* without one, or a fault; the await has no timeout, so with a backend that
\* stays connected and sends nothing it never returns
forward_read(c) ==
    /\ pc[c] = "forward_read"
    /\ backend[c].state = "open"
    /\ \/ /\ \E reply \in BackendReplies(request[c].id) :
                raw' = [raw EXCEPT ![c] = reply]
          /\ pc' = [pc EXCEPT ![c] = "forward_close"]
          /\ UNCHANGED <<response, out, call>>
       \/ LET e == Exc("ConnectionResetError", "Connection reset by peer") IN
          /\ handle_request_except(c, e)
          /\ call' = [call EXCEPT ![c] = Failed(@, "forward", e)]
          /\ UNCHANGED raw
    /\ UNCHANGED <<chain, config, proxy, serving, stopped, data, request, idx, backend, conn>>

\* writer.close(); await writer.wait_closed(); return response
forward_close(c) ==
    /\ pc[c] = "forward_close"
    /\ backend' = [backend EXCEPT ![c].state = "closed", ![c].closed = @ + 1]
    /\ \/ /\ pc' = [pc EXCEPT ![c] = "parse_response"]
          /\ UNCHANGED <<response, out, call>>
       \/ LET e == Exc("ConnectionResetError", "Connection lost") IN
          /\ handle_request_except(c, e)
          /\ call' = [call EXCEPT ![c] = Failed(@, "forward", e)]
    /\ UNCHANGED <<chain, config, proxy, serving, stopped, data, request, raw, idx, conn>>

\* response = Response.from_bytes(raw_response); the bytes are not used again
parse_response(c) ==
    /\ pc[c] = "parse_response"
    /\ LET r == Response_from_bytes(raw[c]) IN
         IF r.raised
         THEN /\ handle_request_except(c, r.exc)
              /\ call' = [call EXCEPT ![c] =
                     Failed(@, IF raw[c].json = "empty" THEN "no_reply"
                               ELSE "bad_reply", r.exc)]
              /\ UNCHANGED idx
         ELSE /\ response' = [response EXCEPT ![c] = r.response]
              /\ idx' = [idx EXCEPT ![c] = Len(chain)]
              /\ pc' = [pc EXCEPT ![c] = "process_response"]
              /\ UNCHANGED <<out, call>>
    /\ raw' = [raw EXCEPT ![c] = NoRaw]
    /\ UNCHANGED <<chain, config, proxy, serving, stopped, data, request, backend, conn>>

\* process_response iterating self.middleware without reversed()
reversed_forward(k) == chain[k]

\* the order in which MiddlewareChain.process_response takes the stages:
\* position k of `for mw in reversed(self.middleware)`
reversed(k) == chain[Len(chain) + 1 - k]

\* handle_request handing the response chain a Request decoded anew from the
\* client's bytes instead of the object the request chain annotated
process_response_fresh(c) ==
    /\ pc[c] = "process_response"
    /\ idx[c] > 0
    /\ LET kind == reversed(Len(chain) + 1 - idx[c]) IN
       \E inp \in ResponseInputs(kind) :
         LET r == Stage_process_response(kind, response[c],
                                         NewRequest(request[c].method, request[c].id),
                                         inp)
             cl == [call[c] EXCEPT !.respVisited = Append(@, kind),
                                   !.audit = @ \o r.audit]
         IN  IF r.raised
             THEN /\ handle_request_except(c, r.exc)
                  /\ call' = [call EXCEPT ![c] = Failed(cl, "response_error", r.exc)]
                  /\ UNCHANGED idx
             ELSE /\ response' = [response EXCEPT ![c] = r.response]
                  /\ idx' = [idx EXCEPT ![c] = @ - 1]
                  /\ call' = [call EXCEPT ![c] = cl]
                  /\ UNCHANGED <<out, pc>>
    /\ UNCHANGED <<chain, config, proxy, serving, stopped, data, request, raw, backend, conn>>

\* MiddlewareChain.process_response: one turn of the loop; idx counts the
\* stages still to visit
process_response(c) ==
    /\ pc[c] = "process_response"
    /\ idx[c] > 0
    /\ LET kind == reversed(Len(chain) + 1 - idx[c]) IN
       \E inp \in ResponseInputs(kind) :
         LET r == Stage_process_response(kind, response[c], request[c], inp)
             cl == [call[c] EXCEPT !.respVisited = Append(@, kind),
                                   !.audit = @ \o r.audit]
         IN  IF r.raised
             THEN /\ handle_request_except(c, r.exc)
                  /\ call' = [call EXCEPT ![c] = Failed(cl, "response_error", r.exc)]
                  /\ UNCHANGED idx
             ELSE /\ response' = [response EXCEPT ![c] = r.response]
                  /\ idx' = [idx EXCEPT ![c] = @ - 1]
                  /\ call' = [call EXCEPT ![c] = cl]
                  /\ UNCHANGED <<out, pc>>
    /\ UNCHANGED <<chain, config, proxy, serving, stopped, data, request, raw, backend, conn>>

\* return processed_response.to_bytes()
handle_request_return(c) ==
    /\ pc[c] = "process_response"
    /\ idx[c] = 0
    /\ out' = [out EXCEPT ![c] = Response_to_bytes(response[c])]
    /\ call' = [call EXCEPT ![c].outcome = "ok"]
    /\ pc' = [pc EXCEPT ![c] = "write"]
    /\ UNCHANGED <<chain, config, proxy, serving, stopped, data, request, response, raw, idx,
                   backend, conn>>

(***************************************************************************)
(* _handle_connection: writing the response, and the finally clause.       *)
(***************************************************************************)
\* the response kept back instead of written before the next read
Write_deferred(c) ==
    /\ pc[c] = "write"
    /\ pc' = [pc EXCEPT ![c] = "read"]
    /\ UNCHANGED <<chain, config, proxy, serving, stopped, data, request, response, raw, out, idx,
                   backend, call, conn>>

\* what is left of a call once handle_request has returned and its frame
\* is gone: its number and how it ended
Finished(cl) == [NewCall(cl.n, cl.prev) EXCEPT !.outcome = cl.outcome]

\* writer.write(response): the bytes handle_request returned go to the
\* transport, and nothing of the call's frame is used again
Write(c) ==
    /\ pc[c] = "write"
    /\ conn' = [conn EXCEPT ![c].events = Append(@, Event("write", call[c].n))]
    /\ pc' = [pc EXCEPT ![c] = "drain"]
    /\ call' = [call EXCEPT ![c] = Finished(@)]
    /\ request' = [request EXCEPT ![c] = NoRequest]
    /\ response' = [response EXCEPT ![c] = NoResponse]
    /\ out' = [out EXCEPT ![c] = NoOut]
    /\ raw' = [raw EXCEPT ![c] = NoRaw]
    /\ idx' = [idx EXCEPT ![c] = 0]
    /\ UNCHANGED <<chain, config, proxy, serving, stopped, data, backend>>

\* await writer.drain(): back to the top of the loop, or a transport fault
Drain(c) ==
    /\ pc[c] = "drain"
    /\ \/ /\ pc' = [pc EXCEPT ![c] = "read"]
          /\ UNCHANGED conn
       \/ /\ pc' = [pc EXCEPT ![c] = "close"]
          /\ conn' = [conn EXCEPT ![c].exit = "write_error"]
    /\ UNCHANGED <<chain, config, proxy, serving, stopped, data, request, response, raw, out, idx,
                   backend, call>>

\* writer.close() in the except clause instead of the finally clause: the
\* end of stream leaves the loop without closing
Close_only_on_error(c) ==
    /\ pc[c] = "close"
    /\ IF conn[c].exit = "eof"
       THEN /\ pc' = [pc EXCEPT ![c] = "closed"]
            /\ UNCHANGED conn
       ELSE /\ conn' = [conn EXCEPT ![c].closes = @ + 1,
                                    ![c].events = Append(@, [ev |-> "close", n |-> 0])]
            /\ pc' = [pc EXCEPT ![c] = "wait_closed"]
    /\ UNCHANGED <<chain, config, proxy, serving, stopped, data, request, response, raw, out, idx,
                   backend, call>>

\* finally: writer.close()
Close(c) ==
    /\ pc[c] = "close"
    /\ conn' = [conn EXCEPT ![c].closes = @ + 1,
                            ![c].events = Append(@, Event("close", 0))]
    /\ pc' = [pc EXCEPT ![c] = "wait_closed"]
    /\ UNCHANGED <<chain, config, proxy, serving, stopped, data, request, response, raw, out, idx,
                   backend, call>>

\* await writer.wait_closed(): whether it returns or raises, the handler ends
WaitClosed(c) ==
    /\ pc[c] = "wait_closed"
    /\ pc' = [pc EXCEPT ![c] = "closed"]
    /\ UNCHANGED <<chain, config, proxy, serving, stopped, data, request, response, raw, out, idx,
                   backend, call, conn>>

Next ==
    \/ \E kind \in StageKinds : add(kind)
    \/ InitMiddleware
    \/ start
    \/ \E c \in Conns :
         \/ Accept(c)
         \/ Read(c)
         \/ Handle(c)
         \/ process_request(c)
         \/ forward(c)
         \/ forward_open(c)
         \/ forward_drain(c)
         \/ forward_read(c)
         \/ forward_close(c)
         \/ parse_response(c)
         \/ process_response(c)
         \/ handle_request_return(c)
         \/ Write(c)
         \/ Drain(c)
         \/ Close(c)
         \/ WaitClosed(c)

Spec == Init /\ [][Next]_vars

(***************************************************************************)
(* The proxy with EnterpriseProxy.stop called on it at any time after      *)
(* start.  stop only writes a log line: it changes nothing the server or   *)
(* the connections read, so every step of Next stays possible after it.    *)
(***************************************************************************)
\* EnterpriseProxy.stop
stop ==
    /\ serving
    /\ ~stopped
    /\ stopped' = TRUE
    /\ UNCHANGED <<chain, config, proxy, serving, pc, data, request, response, raw, out,
                   idx, backend, call, conn>>

NextStop == Next \/ stop

SpecStop == Init /\ [][NextStop]_vars

(***************************************************************************)
(* A stage used on its own: process_request and process_response of one    *)
(* stage called directly, as a unit test does, with any request and        *)
(* response and under any setting of the stage's switches.                 *)
(***************************************************************************)
\* the stages the framework ships
FrameworkStages == {Security, Observability, Governance, CostManagement}

\* SecurityConfig.rbac_enabled, AuditConfig.enabled, RateLimitConfig.enabled
\* and BudgetConfig.enabled, each on or off
Configs ==
    {[DefaultConfig EXCEPT !.rbac_enabled = rbac, !.audit_enabled = audit,
                           !.rate_limits_enabled = rate, !.budget_enabled = budget] :
        rbac \in BOOLEAN, audit \in BOOLEAN, rate \in BOOLEAN, budget \in BOOLEAN}

\* Request objects with and without the metadata earlier stages leave
StageRequests ==
    LET plain == {NewRequest(method, id) : method \in Methods, id \in Ids}
        users == plain \cup {SetUser(r, "demo_user") : r \in plain}
    IN  users \cup {SetStartTime(r, t) : r \in users, t \in Times}

\* Response objects: a result, or an error
StageResponses ==
    {NewResponse("data", NoError, id) : id \in Ids}
    \cup {NewResponse(None, BackendError, id) : id \in Ids}

InitStage ==
    /\ chain \in {<<kind>> : kind \in FrameworkStages}
    /\ config \in Configs
    /\ serving = FALSE
    /\ stopped = FALSE
    /\ proxy = NoProxy
    /\ pc = [c \in Conns |-> "new"]
    /\ data = [c \in Conns |-> NoData]
    /\ request \in [Conns -> StageRequests]
    /\ response \in [Conns -> StageResponses]
    /\ raw = [c \in Conns |-> NoRaw]
    /\ out = [c \in Conns |-> NoOut]
    /\ idx = [c \in Conns |-> 0]
    /\ backend = [c \in Conns |-> NewBackend]
    /\ call = [c \in Conns |-> NewCall(0, "none")]
    /\ conn = [c \in Conns |-> NewConn]

\* await stage.process_request(request)
call_process_request(c) ==
    /\ pc[c] = "new"
    /\ \E inp \in RequestInputs(chain[1]) :
         LET r == Stage_process_request(chain[1], request[c], inp)
             cl == [call[c] EXCEPT !.reqVisited = Append(@, chain[1]),
                                   !.audit = @ \o r.audit,
                                   !.calls = @ \o r.calls,
                                   !.exc = r.exc]
         IN  /\ request' = [request EXCEPT ![c] = r.request]
             /\ call' = [call EXCEPT ![c] = cl]
             /\ pc' = [pc EXCEPT ![c] = IF r.raised THEN "raised" ELSE "returned"]
    /\ UNCHANGED <<chain, config, proxy, serving, stopped, data, response, raw, out, idx, backend,
                   conn>>

\* process_response of a stage that keeps the request in an attribute of the
\* stage instance, where a concurrent call's request replaces it
call_process_response_shared(c) ==
    /\ pc[c] \in {"new", "returned"}
    /\ call[c].respVisited = <<>>
    /\ \E inp \in ResponseInputs(chain[1]) :
         LET kept == IF DOMAIN pc = {c} THEN c ELSE CHOOSE d \in DOMAIN pc : d # c
             r == Stage_process_response(chain[1], response[c], request[kept], inp)
             cl == [call[c] EXCEPT !.respVisited = Append(@, chain[1]),
                                   !.audit = @ \o r.audit,
                                   !.exc = r.exc]
         IN  /\ response' = [response EXCEPT ![c] = r.response]
             /\ call' = [call EXCEPT ![c] = cl]
             /\ pc' = [pc EXCEPT ![c] = IF r.raised THEN "raised" ELSE "returned"]
    /\ UNCHANGED <<chain, config, proxy, serving, stopped, data, request, raw, out, idx, backend,
                   conn>>

\* await stage.process_response(response, request), with or without a call
\* of process_request before it
call_process_response(c) ==
    /\ pc[c] \in {"new", "returned"}
    /\ call[c].respVisited = <<>>
    /\ \E inp \in ResponseInputs(chain[1]) :
         LET r == Stage_process_response(chain[1], response[c], request[c], inp)
             cl == [call[c] EXCEPT !.respVisited = Append(@, chain[1]),
                                   !.audit = @ \o r.audit,
                                   !.exc = r.exc]
         IN  /\ response' = [response EXCEPT ![c] = r.response]
             /\ call' = [call EXCEPT ![c] = cl]
             /\ pc' = [pc EXCEPT ![c] = IF r.raised THEN "raised" ELSE "returned"]
    /\ UNCHANGED <<chain, config, proxy, serving, stopped, data, request, raw, out, idx, backend,
                   conn>>

NextStage ==
    \E c \in Conns : call_process_request(c) \/ call_process_response(c)

SpecStage == InitStage /\ [][NextStage]_vars


(***************************************************************************)
(* The properties checked.                                                 *)
(***************************************************************************)
\* the positions of handle_request, from its entry to its return
HandlePcs ==
    {"handle", "process_request", "forward_open", "forward_drain", "forward_read",
     "forward_close", "parse_response", "process_response"}

ClosingPcs == {"close", "wait_closed", "closed"}

\* handle_request has caught this call's exception and not yet handed its
\* answer to the transport
Caught(c) == call[c].exc.type # "none"

\* a stage's process_request raised during this call
Aborted(c) == Caught(c) /\ call[c].outcome \in {"abort", "stage_error"}

\* C1: when a stage's process_request raises, control is in the except
\* clause's return: the stages visited are exactly the chain up to the stage
\* that raised, no later stage ran, and MCPRouter.forward was not invoked.
C1_AbortShortCircuits ==
    \A c \in DOMAIN pc :
        Aborted(c) =>
            /\ pc[c] = "write"
            /\ call[c].reqVisited = SubSeq(chain, 1, idx[c])
            /\ call[c].forwards = 0
            /\ call[c].sent = NoBytes

C1_Witness ==
    \E c \in DOMAIN pc : Aborted(c) /\ idx[c] < Len(chain)

\* C2: process_response visits the stages in exactly the reverse of the order
\* in which process_request visited them: at every moment the stages visited
\* on the way back are a prefix of the reversed forward order, and all of it
\* when the call returns normally.
C2_ResponseOrderIsReverse ==
    \A c \in DOMAIN pc :
        LET cl == call[c] IN
        /\ Len(cl.respVisited) <= Len(cl.reqVisited)
        /\ cl.respVisited = SubSeq(Reverse(cl.reqVisited), 1, Len(cl.respVisited))
        /\ (pc[c] = "write" /\ cl.outcome = "ok") =>
               /\ cl.reqVisited = chain
               /\ cl.respVisited = Reverse(cl.reqVisited)

C2_Witness ==
    \E c \in DOMAIN pc :
        /\ pc[c] = "write"
        /\ call[c].outcome = "ok"
        /\ Len(call[c].respVisited) >= 2
        /\ call[c].respVisited # call[c].reqVisited

\* C3: every response handle_request returns for a decoded request carries
\* that request's id.
C3_ResponseIdIsRequestId ==
    \A c \in DOMAIN pc :
        (pc[c] = "write" /\ call[c].outcome # "decode") =>
            out[c].id = request[c].id

\* C4: when a stage aborts a request, the error Response goes through
\* MiddlewareChain.process_response before it is returned, and the
\* Observability stage records the duration in its metadata.
C4_AbortResponseIsPostProcessed ==
    \A c \in DOMAIN pc :
        (pc[c] = "write" /\ call[c].outcome = "abort") =>
            /\ call[c].respVisited = Reverse(chain)
            /\ Observability \in Range(chain) =>
                   "duration_seconds" \in response[c].metadata.keys

\* the bytes of a JSON-RPC response: jsonrpc, id, and exactly one of result
\* and error
WellFormed(bytes) ==
    /\ {"jsonrpc", "id"} \subseteq bytes.keys
    /\ bytes.keys \subseteq {"jsonrpc", "id", "result", "error"}
    /\ ("result" \in bytes.keys) # ("error" \in bytes.keys)
    /\ "error" \in bytes.keys => bytes.error.kind = "set"

\* C5: whatever happens while a message is handled, handle_request leaves
\* only by returning to _handle_connection, with well-formed response bytes:
\* no step takes a call from inside handle_request anywhere but on inside it
\* or to the write of its return value.
C5_AlwaysOneWellFormedResponse ==
    [][\A c \in DOMAIN pc :
          pc[c] \in HandlePcs =>
              /\ pc'[c] \in HandlePcs \cup {"write"}
              /\ pc'[c] = "write" =>
                     /\ WellFormed(out'[c])
                     /\ call'[c].outcome # "running"]_vars

C5_Witness ==
    \E c \in DOMAIN pc :
        /\ pc[c] = "write"
        /\ call[c].outcome = "response_error"
        /\ WellFormed(out[c])

\* MCPRouter.forward failed for this call, or the backend closed without a
\* reply
ForwardFailed(c) == Caught(c) /\ call[c].outcome \in {"forward", "no_reply"}

\* C6: when the forward fails, the call is answered with an error response
\* of code -32603 whose message is the text of the exception caught, and
\* the exception goes no further than handle_request.
C6_ForwardFailureIsInternalError ==
    \A c \in DOMAIN pc :
        ForwardFailed(c) =>
            /\ pc[c] = "write"
            /\ out[c].keys = {"jsonrpc", "id", "error"}
            /\ out[c].error.code = -32603
            /\ out[c].error.message = str(call[c].exc)
            /\ out[c].error.message # ""

C6_Witness ==
    \E c \in DOMAIN pc : ForwardFailed(c) /\ call[c].outcome = "no_reply"

\* C7: no step inside a call closes the connection; the connection goes to
\* its finally clause only from the read (end of stream, read fault) or from
\* the drain of a written response (write fault), and otherwise the drain
\* leads back to the read.
C7_CallFailureKeepsConnection ==
    [][\A c \in DOMAIN pc :
          /\ (pc[c] \in HandlePcs \cup {"write"}) => pc'[c] \notin ClosingPcs
          /\ (pc[c] = "drain" /\ pc'[c] # "drain") =>
                 \/ pc'[c] = "read"
                 \/ pc'[c] = "close" /\ conn'[c].exit = "write_error"
          /\ (pc[c] = "read" /\ pc'[c] = "close") =>
                 conn'[c].exit \in {"eof", "read_error"}]_vars

C7_Witness ==
    \E c \in DOMAIN pc :
        /\ call[c].prev = "error"
        /\ pc[c] = "write"
        /\ call[c].outcome = "ok"

\* C8: a message that cannot be decoded is answered with an error response,
\* nothing of it reaches a stage or the backend, the connection is closed
\* only for a transport reason, and a valid message that follows it goes
\* through the whole chain and one forward.
C8_MalformedMessageIsIsolated ==
    \A c \in DOMAIN pc :
        /\ (Caught(c) /\ call[c].outcome = "decode") =>
               /\ pc[c] = "write"
               /\ out[c].keys = {"jsonrpc", "id", "error"}
               /\ out[c].error.message = "Invalid MCP request"
               /\ call[c].reqVisited = <<>>
               /\ call[c].forwards = 0
        /\ (call[c].outcome = "decode" /\ pc[c] \in ClosingPcs) =>
               conn[c].exit \in {"eof", "read_error", "write_error"}
        /\ (call[c].prev = "decode" /\ pc[c] = "write" /\ call[c].outcome = "ok") =>
               /\ call[c].reqVisited = chain
               /\ call[c].forwards = 1
               /\ WellFormed(out[c])

C8_Witness ==
    \E c \in DOMAIN pc :
        /\ call[c].prev = "decode"
        /\ pc[c] = "write"
        /\ call[c].outcome = "ok"
        /\ "result" \in out[c].keys

\* C9: on one connection the reads and writes alternate, read k directly
\* followed by write k: the response to request k is written before request
\* k+1 is read.
C9_ResponsesInRequestOrder ==
    \A c \in DOMAIN pc :
        LET ev == conn[c].events IN
        \A i \in 1..Len(ev) :
            /\ ev[i].ev = "read" =>
                   /\ ev[i].n = Cardinality({j \in 1..i : ev[j].ev = "read"})
                   /\ i > 1 => ev[i - 1] = Event("write", ev[i].n - 1)
            /\ ev[i].ev = "write" =>
                   /\ i > 1
                   /\ ev[i - 1] = Event("read", ev[i].n)

C9_Witness ==
    \E c \in DOMAIN pc :
        /\ Len(conn[c].events) >= 4
        /\ conn[c].events[4] = Event("write", 2)

\* C10: the transport is closed exactly once on every way out of
\* _handle_connection, each of which has a transport cause, and nothing is
\* written after the close.
C10_ClosedExactlyOnce ==
    \A c \in DOMAIN pc :
        LET ev == conn[c].events IN
        /\ conn[c].closes = IF pc[c] \in {"wait_closed", "closed"} THEN 1 ELSE 0
        /\ pc[c] \in ClosingPcs => conn[c].exit \in {"eof", "read_error", "write_error"}
        /\ \A i, j \in 1..Len(ev) :
               (i < j /\ ev[i].ev = "close") => ev[j].ev \notin {"write", "close"}

C10_Witness ==
    \E c \in DOMAIN pc :
        /\ pc[c] = "closed"
        /\ conn[c].exit = "write_error"
        /\ conn[c].closes = 1


\* the positions of MCPRouter.forward between open_connection and its return
ForwardPcs == {"forward_open", "forward_drain", "forward_read", "forward_close"}

\* the positions of MCPRouter.forward at which it holds an open writer
HoldingPcs == {"forward_drain", "forward_read", "forward_close"}

\* C11: MCPRouter.forward leaks no backend transport: outside forward, every
\* backend connection that forward opened has been closed, whether forward
\* returned or raised.
C11_NoBackendLeak ==
    \A c \in DOMAIN pc :
        pc[c] \notin HoldingPcs => backend[c].opened = backend[c].closed

\* a step of MCPRouter.forward
ForwardStep(c) ==
    forward_open(c) \/ forward_drain(c) \/ forward_read(c) \/ forward_close(c)

\* C12: MCPRouter.forward never blocks indefinitely: while a call is inside
\* forward, forward can always take a further step (return or raise), also
\* with a backend that accepted the connection and never replies.
C12_ForwardNeverBlocks ==
    \A c \in DOMAIN pc : pc[c] \in ForwardPcs => ENABLED ForwardStep(c)

Answered(c, fn, result) ==
    \E i \in DOMAIN call[c].calls : call[c].calls[i] = Asked(fn, result)

\* C14: when _authenticate resolves no identity, the Security stage aborts
\* the call, metadata["user"] is never set, nothing is forwarded, and the
\* response carries a code of its own for the unauthenticated case, not the
\* internal-error code.
C14_UnauthenticatedAbort ==
    \A c \in DOMAIN pc :
        (pc[c] = "write" /\ Answered(c, "_authenticate", None)) =>
            /\ Aborted(c)
            /\ str(call[c].exc) = "Authentication failed"
            /\ "user" \notin request[c].metadata.keys
            /\ call[c].forwards = 0
            /\ out[c].error.kind = "set"
            /\ out[c].error.code # DefaultErrorCode

\* C15: when _authorize denies the resolved identity, the Security stage
\* aborts the call: control is in the except clause's return with the
\* not-authorized error, Security is the last stage the request reached, and
\* nothing was forwarded or written to the backend.
C15_ForbiddenAbort ==
    \A c \in DOMAIN pc :
        Answered(c, "_authorize", "False") =>
            /\ pc[c] = "write"
            /\ Aborted(c)
            /\ call[c].exc = Exc("PermissionError", "User not authorized")
            /\ call[c].reqVisited # <<>>
            /\ call[c].reqVisited[Len(call[c].reqVisited)] = Security
            /\ call[c].reqVisited = SubSeq(chain, 1, Len(call[c].reqVisited))
            /\ call[c].forwards = 0
            /\ call[c].sends = 0
            /\ out[c].error.kind = "set"
            /\ out[c].error.message = "User not authorized"

C15_Witness ==
    \E c \in DOMAIN pc :
        /\ Answered(c, "_authorize", "False")
        /\ Len(chain) > Len(call[c].reqVisited)
        /\ "user" \in request[c].metadata.keys

\* C16: when the method needs approval and _get_approval grants none, the
\* call is answered with an error response that has the request's id, code
\* -32001 and message "approval required", and the Router is not called.
C16_ApprovalRequired ==
    \A c \in DOMAIN pc :
        (pc[c] = "write" /\ Answered(c, "_get_approval", None)) =>
            /\ Aborted(c)
            /\ call[c].forwards = 0
            /\ out[c].keys = {"jsonrpc", "id", "error"}
            /\ out[c].id = request[c].id
            /\ out[c].error.code = -32001
            /\ out[c].error.message = "approval required"

\* the audit entries written during this call for this event
AuditEntries(c, event_type) ==
    {i \in DOMAIN call[c].audit :
        /\ call[c].audit[i].event_type = event_type
        /\ call[c].audit[i].request_id = request[c].id}

\* C17: with auditing enabled, every call whose request reached the
\* Governance stage has, when handle_request returns, one audit entry for
\* its request and one for its response, whatever the outcome of the call.
C17_AuditBothEvents ==
    \A c \in DOMAIN pc :
        (/\ pc[c] = "write"
         /\ config.audit_enabled
         /\ Governance \in Range(call[c].reqVisited)) =>
            /\ Cardinality(AuditEntries(c, "request")) = 1
            /\ Cardinality(AuditEntries(c, "response")) = 1


\* the collaborator fn is among these consultations
Consulted(calls, fn) == \E i \in DOMAIN calls : calls[i].fn = fn

\* the collaborator fn is among these consultations and answered False
Denied(calls, fn) == \E i \in DOMAIN calls : calls[i] = Asked(fn, "False")

\* C18: a call of CostManagementMiddleware.process_request consults the rate
\* limit exactly when rate limits are enabled and the budget exactly when
\* budgets are enabled and the rate limit did not fail; a False from the rate
\* limit raises the rate-limit error, a False from the budget raises the
\* budget error, and otherwise the request is returned unchanged.
C18_CostChecks ==
    [][\A c \in DOMAIN pc :
          (pc[c] = "new" /\ call'[c].reqVisited = <<CostManagement>>) =>
              LET calls == call'[c].calls
                  rate == "_check_rate_limit"
                  budget == "_check_budget"
              IN  /\ Consulted(calls, rate) <=> config.rate_limits_enabled
                  /\ Consulted(calls, budget) <=>
                         (config.budget_enabled /\ ~Denied(calls, rate))
                  /\ Denied(calls, rate) =>
                         /\ pc'[c] = "raised"
                         /\ call'[c].exc = Exc("PermissionError", "Rate limit exceeded")
                  /\ Denied(calls, budget) =>
                         /\ pc'[c] = "raised"
                         /\ call'[c].exc = Exc("PermissionError", "Budget limit exceeded")
                  /\ (~Denied(calls, rate) /\ ~Denied(calls, budget)) =>
                         /\ pc'[c] = "returned"
                         /\ call'[c].exc = NoExc
                         /\ request'[c] = request[c]
      ]_vars

C18_Witness ==
    \E c \in DOMAIN pc :
        /\ chain = <<CostManagement>>
        /\ pc[c] = "raised"
        /\ call[c].calls = <<Asked("_check_rate_limit", "True"),
                             Asked("_check_budget", "False")>>
        /\ call[c].exc.msg = "Budget limit exceeded"

\* C19: ObservabilityMiddleware never raises: process_request returns the
\* request with metadata["start_time"] stamped and nothing else changed, and
\* process_response returns the response with metadata["duration_seconds"]
\* recorded and nothing else changed, whether or not the request carries a
\* start stamp.
C19_ObservabilityNeverAborts ==
    [][\A c \in DOMAIN pc :
          chain = <<Observability>> =>
              /\ call'[c].reqVisited # call[c].reqVisited =>
                     /\ pc'[c] = "returned"
                     /\ call'[c].exc = NoExc
                     /\ "start_time" \in request'[c].metadata.keys
                     /\ request'[c] =
                            SetStartTime(request[c], request'[c].metadata.start_time)
              /\ call'[c].respVisited # call[c].respVisited =>
                     /\ pc'[c] = "returned"
                     /\ call'[c].exc = NoExc
                     /\ "duration_seconds" \in response'[c].metadata.keys
                     /\ response'[c] =
                            [response[c] EXCEPT
                                !.metadata.keys = @ \cup {"duration_seconds"},
                                !.metadata.duration_seconds =
                                    response'[c].metadata.duration_seconds]
                     /\ "start_time" \in request[c].metadata.keys =>
                            \E now \in Times :
                                response'[c].metadata.duration_seconds =
                                    now - request[c].metadata.start_time
      ]_vars

C19_Witness ==
    \E c \in DOMAIN pc :
        /\ chain = <<Observability>>
        /\ pc[c] = "returned"
        /\ call[c].reqVisited = <<>>
        /\ call[c].respVisited = <<Observability>>
        /\ "start_time" \notin request[c].metadata.keys
        /\ "duration_seconds" \in response[c].metadata.keys

\* the order in which the framework's stages are to stand
StageOrder == <<Security, Observability, Governance, CostManagement>>

Position(kind) == CHOOSE i \in DOMAIN StageOrder : StageOrder[i] = kind

\* no stage of seq stands before one that StageOrder lists earlier
InOrder(seq) ==
    /\ Range(seq) \subseteq Range(StageOrder)
    /\ \A i, j \in DOMAIN seq : i < j => Position(seq[i]) < Position(seq[j])

\* C20: whatever layer arguments the constructor is given, the chain that
\* _init_middleware builds holds the framework's stages in the order
\* Security, Observability, Governance, CostManagement.
C20_FixedStageOrder ==
    [][InitMiddleware => InOrder(chain') /\ Range(chain') = Range(StageOrder)]_vars

C20_Witness ==
    \E c \in DOMAIN pc :
        /\ serving
        /\ chain = StageOrder
        /\ call[c].reqVisited = StageOrder

\* C21: MiddlewareChain.process_response has no abort path: whenever a
\* Response decoded from the backend was handed to the response chain, every
\* stage of the chain had its process_response called, in reverse order, by
\* the time handle_request returns, also when one of them failed.
C21_ResponseChainHasNoAbort ==
    \A c \in DOMAIN pc :
        (pc[c] = "write" /\ call[c].outcome \in {"ok", "response_error"}) =>
            call[c].respVisited = Reverse(chain)

\* a step of _handle_connection for this connection, handle_request and
\* MCPRouter.forward included
ConnectionStep(c) ==
    \/ Read(c) \/ Handle(c) \/ process_request(c) \/ forward(c)
    \/ ForwardStep(c) \/ parse_response(c) \/ process_response(c)
    \/ handle_request_return(c) \/ Write(c) \/ Drain(c) \/ Close(c)
    \/ WaitClosed(c)

\* why the connections that are being closed left their loop: only the end
\* of the client's stream or a transport fault in the read or the write
ClosedForCause ==
    \A c \in DOMAIN pc :
        /\ pc[c] \in ClosingPcs => conn[c].exit \in {"eof", "read_error", "write_error"}
        /\ conn[c].exit # "none" => pc[c] \in ClosingPcs

\* C22: an accepted connection goes round read, handle, write until it is
\* closed; it is closed only for the end of the client's stream or a
\* transport fault, nothing of it is handled once the end of stream was
\* read, and as long as it is not closed its handler can always take a
\* further step towards reading the end of stream and closing.
C22_ConnectionLifecycle ==
    /\ ClosedForCause
    /\ \A c \in DOMAIN pc :
           pc[c] \notin {"new", "closed"} => ENABLED ConnectionStep(c)

\* C23: once stop() has been called on a started proxy, no connection that
\* is not yet accepted gets accepted.
C23_StopStopsAccepting ==
    [][\A c \in DOMAIN pc : (stopped /\ pc[c] = "new") => pc'[c] = "new"]_vars

(***************************************************************************)
(* Two client connections, each handled by its own _handle_connection      *)
(* task.  The first is suspended at an await whose result does not arrive  *)
(* (the client's next bytes, a collaborator's answer, the reply of a       *)
(* silent backend); the second is accepted and served meanwhile.           *)
(***************************************************************************)
Waiting == {1}
Peers == {1, 2}

\* the request of the suspended connection, as decoded and as it stands
\* after the four stages have passed it
WaitingRequest == NewRequest("tools/list", "1")
WaitingPassed == SetStartTime(SetUser(WaitingRequest, "demo_user"), 0)

\* where the first connection may be suspended: in reader.read after being
\* accepted, in the first stage's process_request, or in MCPRouter.forward's
\* reader.read with a silent backend
SuspendedAt ==
    LET fresh == [pc |-> "read", request |-> NoRequest, idx |-> 0,
                  backend |-> NewBackend, call |-> NewCall(0, "none"),
                  conn |-> NewConn]
        reading == [NewConn EXCEPT !.nRead = 1, !.events = <<Event("read", 1)>>]
        passed == [NewCall(1, "none") EXCEPT
                      !.reqVisited = StageOrder,
                      !.forwards = 1,
                      !.sends = 1,
                      !.sent = Request_to_bytes(WaitingPassed),
                      !.audit = <<audit_entry(WaitingPassed, "request", None)>>,
                      !.calls = <<Asked("_authenticate", "demo_user"),
                                  Asked("_authorize", "True"),
                                  Asked("_check_rate_limit", "True"),
                                  Asked("_check_budget", "True")>>]
    IN  {fresh,
         [fresh EXCEPT !.pc = "process_request", !.request = WaitingRequest,
                       !.idx = 1, !.call = NewCall(1, "none"), !.conn = reading],
         [fresh EXCEPT !.pc = "forward_read", !.request = WaitingPassed,
                       !.idx = Len(StageOrder) + 1,
                       !.backend = [NewBackend EXCEPT !.state = "silent",
                                                      !.opened = 1],
                       !.call = passed, !.conn = reading]}

InitPair ==
    /\ \E args \in LayerArgs : chain = init_middleware(FrameworkLayers(args))
    /\ config = DefaultConfig
    /\ serving = TRUE
    /\ stopped = FALSE
    /\ proxy = NoProxy
    /\ data = [c \in Peers |-> NoData]
    /\ response = [c \in Peers |-> NoResponse]
    /\ raw = [c \in Peers |-> NoRaw]
    /\ out = [c \in Peers |-> NoOut]
    /\ \E s \in SuspendedAt :
         /\ pc = [c \in Peers |-> IF c \in Waiting THEN s.pc ELSE "new"]
         /\ request = [c \in Peers |-> IF c \in Waiting THEN s.request ELSE NoRequest]
         /\ idx = [c \in Peers |-> IF c \in Waiting THEN s.idx ELSE 0]
         /\ backend = [c \in Peers |-> IF c \in Waiting THEN s.backend ELSE NewBackend]
         /\ call = [c \in Peers |-> IF c \in Waiting THEN s.call ELSE NewCall(0, "none")]
         /\ conn = [c \in Peers |-> IF c \in Waiting THEN s.conn ELSE NewConn]

\* the steps of the connection that is not suspended
NextPair == \E c \in Peers \ Waiting : Accept(c) \/ ConnectionStep(c)

SpecPair == InitPair /\ [][NextPair]_vars

\* forward's read on a backend that sends nothing: the one await that no
\* event ever completes
OwnSilent(c) == pc[c] = "forward_read" /\ backend[c].state = "silent"

\* C24: whether a connection's handler can go on depends on that connection
\* alone: with another connection suspended in its read, in a stage or in
\* forward on a silent backend, a connection that is not closed and not
\* itself waiting on a silent backend always has a step it can take.
C24_ConnectionsIndependent ==
    \A c \in DOMAIN pc :
        (pc[c] # "closed" /\ ~OwnSilent(c)) => ENABLED (Accept(c) \/ ConnectionStep(c))

C24_Witness ==
    \E c \in DOMAIN pc, d \in DOMAIN pc :
        /\ c # d
        /\ OwnSilent(c)
        /\ pc[d] = "drain"
        /\ call[d].outcome = "ok"
        /\ call[d].n = 1
        /\ conn[d].events = <<Event("read", 1), Event("write", 1)>>
        /\ backend[d].closed = 1

\* every value the metadata of a Request may have
Metadatas ==
    [keys : SUBSET {"user", "start_time", "approval"},
     user : {None, "demo_user"},
     start_time : Times,
     approval : {None, "auto_approved"}]

\* C25: the bytes handed to MCPRouter.forward hold the request's jsonrpc,
\* method and id and nothing else, and the same request with any other
\* metadata is encoded to the very same bytes.
C25_MetadataNotForwarded ==
    \A c \in DOMAIN pc :
        call[c].forwards = 1 =>
            /\ call[c].sent = [json |-> "object", jsonrpc |-> request[c].jsonrpc,
                               method |-> request[c].method, id |-> request[c].id]
            /\ \A md \in Metadatas :
                   Request_to_bytes([request[c] EXCEPT !.metadata = md]) = call[c].sent

C25_Witness ==
    \E c \in DOMAIN pc :
        /\ pc[c] = "forward_read"
        /\ call[c].sends = 1
        /\ request[c].metadata.keys = {"user", "start_time", "approval"}
        /\ request[c].metadata.user = "demo_user"

\* C26: decoding the bytes a Request encodes to gives that Request again:
\* for every Request object of a call, Request.from_bytes(req.to_bytes())
\* does not raise and equals req.
C26_RequestRoundTrip ==
    \A c \in DOMAIN pc :
        request[c] # NoRequest =>
            LET r == Request_from_bytes(Request_to_bytes(request[c]))
            IN  ~r.raised /\ r.request = request[c]

\* C27: when the bytes read are not JSON, are no JSON object, or lack the
\* method or the id, Request.from_bytes raises the decode error: the call
\* ends as a decode failure with no Request built and nothing forwarded.
C27_DecodeRejectsIncomplete ==
    [][\A c \in DOMAIN pc :
          (/\ pc[c] = "handle"
           /\ pc'[c] # "handle"
           /\ \/ data[c].json # "object"
              \/ data[c].method = Absent
              \/ data[c].id = Absent) =>
              /\ pc'[c] = "write"
              /\ call'[c].outcome = "decode"
              /\ call'[c].exc.type = "ValueError"
              /\ request'[c] = NoRequest
      ]_vars

\* C28: every Response object of a call has exactly one of result and error
\* set, and the bytes handle_request returns hold exactly one of the keys
\* result and error.
C28_ExactlyOneOfResultAndError ==
    \A c \in DOMAIN pc :
        /\ response[c] # NoResponse =>
               (response[c].result # None) # (response[c].error.kind # "none")
        /\ pc[c] = "write" => ("result" \in out[c].keys) # ("error" \in out[c].keys)

\* C29: a backend reply whose id is not the id of the request forwarded is
\* not delivered as the result of the call: whenever handle_request returns
\* the bytes of a result, the Response decoded from the backend carried the
\* request's id.
C29_MismatchedReplyIsProtocolError ==
    \A c \in DOMAIN pc :
        (pc[c] = "write" /\ call[c].outcome = "ok" /\ "result" \in out[c].keys) =>
            response[c].id = request[c].id

\* C30: the id and the method of a call's Request are those decoded from
\* the client's bytes and no stage changes them: every step of
\* handle_request leaves them as they are, and the bytes handed to
\* MCPRouter.forward carry them.
C30_IdAndMethodImmutable ==
    [][\A c \in DOMAIN pc :
          /\ (pc[c] = "handle" /\ pc'[c] = "process_request") =>
                 /\ data[c].method # Absent => request'[c].method = data[c].method
                 /\ data[c].id # Absent => request'[c].id = data[c].id
          /\ (pc[c] \in HandlePcs \ {"handle"}) =>
                 /\ request'[c].id = request[c].id
                 /\ request'[c].method = request[c].method
          /\ call'[c].forwards > call[c].forwards =>
                 /\ call'[c].sent.id = request[c].id
                 /\ call'[c].sent.method = request[c].method
      ]_vars

C30_Witness ==
    \E c \in DOMAIN pc :
        /\ chain = <<Governance, Security>>
        /\ pc[c] = "write"
        /\ call[c].outcome = "ok"
        /\ call[c].respVisited = <<Security, Governance>>
        /\ request[c].method = "issues.close"
        /\ request[c].id = "2"
        /\ request[c].metadata.keys = {"approval", "user"}
        /\ call[c].sent.method = "issues.close"
        /\ call[c].sent.id = "2"

\* stage a stands before stage b in seq
Before(a, b, seq) ==
    \E i, j \in DOMAIN seq : i < j /\ seq[i] = a /\ seq[j] = b

\* C31: what a stage writes to request.metadata in process_request is there
\* for the stages after it and for every process_response of the call: when
\* the response chain runs, the metadata holds the user, the start time and
\* the approval the chain's stages wrote, the audit entry for the request
\* names the user exactly when Security stands before Governance, and the
\* audit entry for the response names the user whenever Security is in the
\* chain.
C31_MetadataVisible ==
    \A c \in DOMAIN pc :
        /\ pc[c] = "process_response" =>
               /\ Security \in Range(chain) =>
                      /\ "user" \in request[c].metadata.keys
                      /\ request[c].metadata.user = "demo_user"
               /\ Observability \in Range(chain) =>
                      "start_time" \in request[c].metadata.keys
               /\ (Governance \in Range(chain) /\ requires_approval(request[c])) =>
                      "approval" \in request[c].metadata.keys
        /\ \A i \in DOMAIN call[c].audit :
               LET e == call[c].audit[i] IN
               /\ e.event_type = "request" =>
                      e.user = IF Before(Security, Governance, chain)
                               THEN "demo_user" ELSE None
               /\ e.event_type = "response" =>
                      e.user = IF Security \in Range(chain) THEN "demo_user" ELSE None

C31_Witness ==
    \E c \in DOMAIN pc :
        /\ chain = <<Governance, Security>>
        /\ pc[c] = "write"
        /\ Len(call[c].audit) = 2
        /\ call[c].audit[1].event_type = "request"
        /\ call[c].audit[1].user = None
        /\ call[c].audit[2].event_type = "response"
        /\ call[c].audit[2].user = "demo_user"

\* the stages of seq are pairwise different
NoRepeat(seq) == \A i, j \in DOMAIN seq : seq[i] = seq[j] => i = j

TimesConsulted(calls, fn) == Cardinality({i \in DOMAIN calls : calls[i].fn = fn})

\* C35: a call of SecurityMiddleware.process_request with rbac_enabled off
\* never consults _authorize and returns every authenticated request with
\* its user set; with rbac_enabled on it consults _authorize exactly once
\* for every authenticated request, after _authenticate and with
\* metadata["user"] set, and not at all for an unauthenticated one.
C35_RbacSwitch ==
    [][\A c \in DOMAIN pc :
          (pc[c] = "new" /\ call'[c].reqVisited = <<Security>>) =>
              LET calls == call'[c].calls
                  authenticated == ~(\E i \in DOMAIN calls :
                                        calls[i] = Asked("_authenticate", None))
              IN  /\ TimesConsulted(calls, "_authenticate") = 1
                  /\ calls[1].fn = "_authenticate"
                  /\ ~config.rbac_enabled =>
                         /\ ~Consulted(calls, "_authorize")
                         /\ authenticated =>
                                /\ pc'[c] = "returned"
                                /\ request'[c] = SetUser(request[c], "demo_user")
                  /\ config.rbac_enabled =>
                         /\ TimesConsulted(calls, "_authorize") =
                                (IF authenticated THEN 1 ELSE 0)
                         /\ authenticated =>
                                /\ calls[Len(calls)].fn = "_authorize"
                                /\ "user" \in request'[c].metadata.keys
                                /\ (pc'[c] = "raised") <=> Denied(calls, "_authorize")
      ]_vars

C35_Witness ==
    \E c \in DOMAIN pc :
        /\ chain = <<Security>>
        /\ ~config.rbac_enabled
        /\ pc[c] = "returned"
        /\ call[c].reqVisited = <<Security>>
        /\ call[c].calls = <<Asked("_authenticate", "demo_user")>>
        /\ request[c].metadata.user = "demo_user"

\* every value the metadata of a Response may have
RespMetadatas ==
    [keys : SUBSET {"duration_seconds", "cost_usd"},
     duration_seconds : {t - s : t \in Times, s \in Times}]

\* C36: the bytes handle_request returns hold jsonrpc, id and one of result
\* and error, taken from the Response, and nothing of its metadata: the same
\* Response with any other metadata is encoded to the very same bytes.
C36_ResponseMetadataNotSent ==
    \A c \in DOMAIN pc :
        pc[c] = "write" =>
            /\ out[c].keys \subseteq {"jsonrpc", "id", "result", "error"}
            /\ DOMAIN out[c] = {"keys", "id", "result", "error"}
            /\ out[c].id = response[c].id
            /\ \A md \in RespMetadatas :
                   Response_to_bytes([response[c] EXCEPT !.metadata = md]) = out[c]

C36_Witness ==
    \E c \in DOMAIN pc :
        /\ pc[c] = "write"
        /\ call[c].outcome = "ok"
        /\ response[c].metadata.keys = {"duration_seconds", "cost_usd"}
        /\ response[c].metadata.duration_seconds = 1
        /\ "result" \in out[c].keys

(***************************************************************************)
(* Two calls in flight on one stage instance: the stage's process_request  *)
(* and process_response are awaited for two Request objects in any         *)
(* interleaving, as two connection handlers do with the shared chain.      *)
(***************************************************************************)
InitShared ==
    /\ chain \in {<<kind>> : kind \in FrameworkStages}
    /\ config = DefaultConfig
    /\ serving = FALSE
    /\ stopped = FALSE
    /\ proxy = NoProxy
    /\ pc = [c \in Peers |-> "new"]
    /\ data = [c \in Peers |-> NoData]
    /\ request \in [Peers -> StageRequests]
    /\ response = [c \in Peers |-> NewResponse("data", NoError, request[c].id)]
    /\ raw = [c \in Peers |-> NoRaw]
    /\ out = [c \in Peers |-> NoOut]
    /\ idx = [c \in Peers |-> 0]
    /\ backend = [c \in Peers |-> NewBackend]
    /\ call = [c \in Peers |-> NewCall(0, "none")]
    /\ conn = [c \in Peers |-> NewConn]

NextShared ==
    \E c \in Peers : call_process_request(c) \/ call_process_response(c)

SpecShared == InitShared /\ [][NextShared]_vars

\* C34: a call's metadata is its own: a step of one call leaves the Request,
\* the Response and the record of every other call as they were, and what a
\* stage's process_response reads for a call is that call's Request: the
\* duration is counted from the call's own start_time and the audit entry
\* names the call's own id and user, whatever a concurrent call has written.
C34_MetadataPrivate ==
    [][\A c \in DOMAIN pc :
          /\ call'[c] # call[c] =>
                 \A d \in DOMAIN pc \ {c} :
                     /\ request'[d] = request[d]
                     /\ response'[d] = response[d]
                     /\ call'[d] = call[d]
          /\ call'[c].respVisited # call[c].respVisited =>
                 /\ request'[c] = request[c]
                 /\ (chain = <<Observability>>
                     /\ "start_time" \in request[c].metadata.keys) =>
                        \E now \in Times :
                            response'[c].metadata.duration_seconds =
                                now - request[c].metadata.start_time
                 /\ chain = <<Governance>> =>
                        call'[c].audit =
                            Append(call[c].audit,
                                   [event_type |-> "response",
                                    request_id |-> request[c].id,
                                    method |-> request[c].method,
                                    user |-> IF "user" \in request[c].metadata.keys
                                             THEN request[c].metadata.user ELSE None,
                                    status |-> "success"])
      ]_vars

C34_Witness ==
    \E c \in DOMAIN pc, d \in DOMAIN pc :
        /\ c # d
        /\ chain = <<Observability>>
        /\ call[c].reqVisited = <<Observability>>
        /\ call[d].reqVisited = <<Observability>>
        /\ call[c].respVisited = <<Observability>>
        /\ call[d].respVisited = <<>>
        /\ request[c].metadata.start_time = 1
        /\ request[d].metadata.start_time = 0
        /\ response[c].metadata.duration_seconds = 0

(***************************************************************************)
(* The constructor.                                                        *)
(***************************************************************************)
\* the call of examples/basic/simple_proxy.py and of the class docstring: a
\* target server, a SecurityConfig naming only the auth provider and RBAC,
\* and an ObservabilityConfig
ExampleArgs ==
    [target_server |-> "my-mcp-server",
     security |-> [given |-> TRUE, value |-> SecurityConfig(TRUE, TRUE, None, None)],
     observability |-> TRUE, governance |-> FALSE, cost_management |-> FALSE]

\* C33: an EnterpriseProxy constructed as the shipped example does, with a
\* target server, a SecurityConfig that sets only the auth provider and RBAC,
\* and an ObservabilityConfig, passes validation, is constructed, and can be
\* started
C33_ExampleConstructs ==
    (proxy.status # "none" /\ proxy.args = ExampleArgs) =>
        /\ proxy.status = "ready"
        /\ proxy.exc = NoExc
        /\ serving \/ ENABLED proxy_start

\* C37: every EnterpriseProxy the constructor returns has all four framework
\* stages in its chain, whichever layer arguments were None: a None layer gets
\* the default config, never a missing stage; a constructor that raised
\* built no chain
C37_AllFourStages ==
    /\ proxy.status = "ready" =>
          /\ Len(chain) = Cardinality(FrameworkStages)
          /\ Range(chain) = FrameworkStages
          /\ \A k \in DOMAIN proxy.config.layers : proxy.config.layers[k]
    /\ proxy.status # "ready" => chain = <<>>

C37_Witness ==
    /\ proxy.status = "ready"
    /\ ~proxy.args.observability
    /\ ~proxy.args.governance
    /\ ~proxy.args.cost_management
    /\ Len(chain) = Cardinality(FrameworkStages)

=============================================================================
